---- MODULE Spec2Model ----
(***************************************************************************)
(* Model of the ROI overlay engine of smile-2dvp                           *)
(* (src/src/components/VideoOverlay.jsx): the frame lookup and the box     *)
(* tracker run by the requestAnimationFrame callback `update`, and the     *)
(* description resolver run by the effect on [selectedBox, mappingLookup,  *)
(* mappingError].                                                          *)
(*                                                                         *)
(* Time is counted in units of 0.1 s, so the seek threshold 0.1 is 1 and   *)
(* BOX_HOLD_DURATION 0.2 is 2.  An absent (undefined) field is Undef.      *)
(*                                                                         *)
(* The focus heuristics of the render callback (lines 331-364) are         *)
(* modelled on boxes whose coordinates are multiples of 0.001 of the       *)
(* frame, with exact arithmetic.  The ROI lookup of the smile-ivp player   *)
(* (src/smile-ivp/src/components/VideoPlayer.tsx) is modelled with ranges  *)
(* in seconds and played times in units of 0.01 s.  The loads of the page  *)
(* (src/src/App.jsx) decide whether VideoOverlay is rendered at all.       *)
(***************************************************************************)
EXTENDS Integers, Sequences, FiniteSets, TLC

VARIABLES
    supplied,       \* roi.frames as loaded, before the sort of line 22
    frames,         \* roi.frames after the sort of line 22
    currentBoxes,   \* useState currentBoxes: the published tracked boxes
    prevBoxes,      \* argument `prevBoxes` of the last run of the updater
    previousTime,   \* closure variable previousTime of the effect
    frame,          \* local `frame` of the last run of update
    isSeeking,      \* local `isSeeking` of the last run of update
    tickResult,     \* "none" | "published" | "TypeError" | "RenderTypeError":
                    \* how the last update and the render of its list ended
    holdDuration,   \* the constant BOX_HOLD_DURATION of the build (line 6)
    animationFrameId,   \* closure variable animationFrameId (0 = undefined)
    rafCallbacks,       \* ids of the callbacks requestAnimationFrame holds
    selectedBox,        \* useState selectedBox (NoBox = null)
    descriptionMapping, \* useState descriptionMapping (NoMapping = null)
    mappingError,       \* useState mappingError (FALSE = null)
    descriptionStatus,  \* useState descriptionStatus
    descriptionHtml,    \* useState descriptionHtml (Empty = "")
    latestFetchRef,     \* latestFetchRef.current
    requests,           \* the description fetches started so far, by requestId
    effectRequest,      \* requestId of the controller the effect's cleanup aborts
    paused,             \* videoRef.current.paused
    calls,              \* the calls made by the last selection or close handler
    selectedWhilePending,   \* the selection was made before the mapping load ended
    renderBox,      \* the box of currentBoxes handed to the render callback
    rendered,       \* what the render callback computed for it
    roiData,        \* smile-ivp VideoPlayer: prop roiData
    currentTime,    \* smile-ivp VideoPlayer: useState currentTime
    currentROIs,    \* smile-ivp VideoPlayer: useState currentROIs
    playing,        \* smile-ivp VideoPlayer: useState playing
    popupOpen,      \* smile-ivp App: useState popupOpen
    popupContent,   \* smile-ivp App: useState popupContent (Empty = '')
    popupTitle,     \* smile-ivp App: useState popupTitle (Empty = '')
    isLoading,      \* smile-ivp App: useState isLoading
    popupFetches,   \* smile-ivp App: the calls of handleROIClick so far
    mediaSelection, \* App: useState mediaSelection (NoMedia = null)
    configError,    \* App: useState configError (NoNotice = null)
    roi,            \* App: useState roi, the document as loaded (NoRoi = null)
    error           \* App: useState error (NoNotice = null)

tickVars == <<supplied, frames, currentBoxes, prevBoxes, previousTime, frame,
              isSeeking, tickResult, holdDuration, animationFrameId,
              rafCallbacks>>
playVars == <<paused, calls, selectedWhilePending>>
descVars == <<selectedBox, descriptionMapping, mappingError, descriptionStatus,
              descriptionHtml, latestFetchRef, requests, effectRequest, paused,
              calls, selectedWhilePending>>
focusVars == <<renderBox, rendered>>
popupVars == <<popupOpen, popupContent, popupTitle, isLoading, popupFetches>>
playerVars == <<roiData, currentTime, currentROIs, playing, popupOpen,
                popupContent, popupTitle, isLoading, popupFetches>>
appVars == <<mediaSelection, configError, roi, error>>
vars == <<supplied, frames, currentBoxes, prevBoxes, previousTime, frame, isSeeking,
          tickResult, holdDuration, animationFrameId, rafCallbacks,
          selectedBox, descriptionMapping, mappingError, descriptionStatus,
          descriptionHtml, latestFetchRef, requests, effectRequest, paused, calls,
          selectedWhilePending, renderBox, rendered, roiData, currentTime, currentROIs, playing,
          popupOpen, popupContent, popupTitle, isLoading, popupFetches,
          mediaSelection, configError, roi, error>>

----------------------------------------------------------------------------
(* Bounds of the model and constants of the program                        *)

MaxTime == 5        \* playback times read by update are 0..MaxTime
MaxFrames == 3      \* length of the frame lists of the Frame Index family
MaxStamp == 2       \* frame timestamps of the Frame Index family are 0..MaxStamp
MaxBoxes == 2       \* boxes per frame in the Box Tracker family
MaxGap == 2         \* timestamp of the second frame of the Box Tracker family
MaxFetches == 2     \* description fetches started in one run
MaxEntries == 2     \* entries of the description mapping document
MaxRanges == 2      \* frame-range items of the smile-ivp ROI document
MaxClicks == 2      \* clicks on ROIs of the smile-ivp player in one run

SEEK_THRESHOLD == 1     \* 0.1 s, line 39
BOX_HOLD_DURATION == 2  \* 0.2 s, line 6

Undef == -1         \* an absent field / undefined
Times == 0..MaxTime
TrackIds == {Undef, 1}
LabelIds == {1, 2}

Abs(x) == IF x < 0 THEN -x ELSE x
Range(s) == {s[i] : i \in DOMAIN s}

----------------------------------------------------------------------------
(* Frame Index: sort at load, linear lookup per tick                       *)

\* frames[0] of an empty array: undefined
UndefinedFrame == [t |-> Undef, boxes |-> <<>>]

\* insert f after every element e with e.t <= f.t (the sort is stable)
RECURSIVE InsertFrame(_, _)
InsertFrame(sorted, f) ==
    IF sorted = <<>> THEN <<f>>
    ELSE IF Head(sorted).t - f.t <= 0
         THEN <<Head(sorted)>> \o InsertFrame(Tail(sorted), f)
         ELSE <<f>> \o sorted

RECURSIVE SortFrames(_)

\* line 22 without the sort
SortFramesOmitted(fs) == fs

\* roi.frames.sort((a, b) => a.t - b.t), line 22
SortFrames(fs) ==
    IF fs = <<>> THEN <<>>
    ELSE InsertFrame(SortFrames(SubSeq(fs, 1, Len(fs) - 1)), fs[Len(fs)])

RECURSIVE ScanFrames(_, _, _, _)

\* the loop with `>=` for `>` in line 34
ScanFramesBreakAtEqual(fs, t, i, found) ==
    IF i > Len(fs) THEN found
    ELSE IF fs[i].t >= t THEN found
    ELSE ScanFrames(fs, t, i + 1, fs[i])

\* the loop of lines 33-36, from index i with the frame found so far
ScanFrames(fs, t, i, found) ==
    IF i > Len(fs) THEN found
    ELSE IF fs[i].t > t THEN found
    ELSE ScanFrames(fs, t, i + 1, fs[i])

\* lines 32-36
FrameAt(fs, t) ==
    ScanFrames(fs, t, 1, IF fs = <<>> THEN UndefinedFrame ELSE fs[1])

----------------------------------------------------------------------------
(* App: what the page shows                                                *)

NoMedia == "null"
NoNotice == ""
NoRoi == [loaded |-> FALSE, frames |-> <<>>]
RoiDocument(fs) == [loaded |-> TRUE, frames |-> fs]

\* the branches of the render of App, src/src/App.jsx lines 174-182
AppView(selection, notice, document) ==
    IF selection = NoMedia THEN "Loading configuration"
    ELSE IF notice # NoNotice THEN "error"
    ELSE IF document = NoRoi THEN "Loading ROI"
    ELSE "VideoOverlay"

\* VideoOverlay is rendered by App and no render of it has thrown
OverlayMounted ==
    /\ AppView(mediaSelection, error, roi) = "VideoOverlay"
    /\ tickResult \notin {"TypeError", "RenderTypeError"}

----------------------------------------------------------------------------
(* Box Tracker: the updater passed to setCurrentBoxes                      *)

\* box.track_id ?? box.label_id
BoxKey(b) == IF b.track_id # Undef THEN b.track_id ELSE b.label_id

\* { ...box, lastSeen: now }
Stamp(box, now) ==
    [track_id |-> box.track_id, label_id |-> box.label_id,
     bbox |-> box.bbox, lastSeen |-> now]

\* the isSeeking branch, lines 43-48
SeekBoxes(f, now) == [i \in 1..Len(f.boxes) |-> Stamp(f.boxes[i], now)]

\* A Map is a sequence of <<key, value>> in insertion order.
MapHas(m, k) == \E i \in DOMAIN m : m[i][1] = k
MapGet(m, k) == m[CHOOSE i \in DOMAIN m : m[i][1] = k][2]
MapSet(m, k, v) ==
    IF MapHas(m, k)
    THEN [i \in DOMAIN m |-> IF m[i][1] = k THEN <<k, v>> ELSE m[i]]
    ELSE Append(m, <<k, v>>)
MapDelete(m, k) == SelectSeq(m, LAMBDA e : e[1] # k)

\* new Map(prevBoxes.map(b => [b.track_id ?? b.label_id, b])), lines 50-52
RECURSIVE PrevMap(_)
PrevMap(boxes) ==
    IF boxes = <<>> THEN <<>>
    ELSE MapSet(PrevMap(SubSeq(boxes, 1, Len(boxes) - 1)),
                BoxKey(boxes[Len(boxes)]), boxes[Len(boxes)])

\* lines 61-66 with the spreads of prev and box exchanged
MergeBoxPrevWins(prev, box, now) ==
    [track_id |-> IF prev.track_id # Undef THEN prev.track_id ELSE box.track_id,
     label_id |-> prev.label_id,
     bbox |-> prev.bbox,
     lastSeen |-> now]

\* { ...box, lastSeen, ...{ ...prev, ...box, lastSeen } }, lines 61-66:
\* a field the detection lacks is taken from prev
MergeBox(prev, box, now) ==
    [track_id |-> IF box.track_id # Undef THEN box.track_id ELSE prev.track_id,
     label_id |-> box.label_id,
     bbox |-> IF box.bbox # Undef THEN box.bbox ELSE prev.bbox,
     lastSeen |-> now]

\* the loop of lines 56-69 from detection i: <<nextBoxes, prevMap>>
RECURSIVE MergeLoop(_, _, _, _, _)
MergeLoop(boxes, i, now, nextBoxes, prevMap) ==
    IF i > Len(boxes) THEN <<nextBoxes, prevMap>>
    ELSE LET box == boxes[i]
             key == BoxKey(box)
             pushed == IF MapHas(prevMap, key)
                       THEN MergeBox(MapGet(prevMap, key), box, now)
                       ELSE Stamp(box, now)
         IN MergeLoop(boxes, i + 1, now, Append(nextBoxes, pushed),
                      MapDelete(prevMap, key))

\* line 73 without `lastSeen <= now`
HeldNoFutureGuard(prev, now) == now - prev.lastSeen <= holdDuration

\* line 73 with `<` for the second `<=`
HeldStrict(prev, now) ==
    prev.lastSeen <= now /\ now - prev.lastSeen < holdDuration

\* the condition of line 73
Held(prev, now) ==
    prev.lastSeen <= now /\ now - prev.lastSeen <= holdDuration

\* prevMap.forEach, lines 71-76
HeldBoxes(prevMap, now) ==
    LET kept == SelectSeq(prevMap, LAMBDA e : Held(e[2], now))
    IN [i \in DOMAIN kept |-> kept[i][2]]

\* lines 50-78 without prevMap.delete(key) of line 68: a box of the active
\* frame stays a candidate for holding
TrackBoxesKeysKept(prior, f, now) ==
    LET r == MergeLoop(f.boxes, 1, now, <<>>, PrevMap(prior))
    IN r[1] \o HeldBoxes(PrevMap(prior), now)

\* lines 50-78
TrackBoxes(prior, f, now) ==
    LET r == MergeLoop(f.boxes, 1, now, <<>>, PrevMap(prior))
    IN r[1] \o HeldBoxes(r[2], now)

\* lines 42-79 without the isSeeking branch
UpdateBoxesNoReset(prior, f, seeking, now) == TrackBoxes(prior, f, now)

\* lines 42-79
UpdateBoxes(prior, f, seeking, now) ==
    IF seeking THEN SeekBoxes(f, now) ELSE TrackBoxes(prior, f, now)

\* line 39
SeekDetected(seeking, now, prev) == seeking \/ Abs(now - prev) > SEEK_THRESHOLD

\* currentBoxes.map of lines 331-427: the indices of the boxes that get an
\* element.  `const [x, y, w, h] = box.bbox` (line 332) throws a TypeError
\* for a box without bbox, and then the map returns nothing.
RenderedBoxes(boxes) ==
    IF \E i \in DOMAIN boxes : boxes[i].bbox = Undef THEN {} ELSE DOMAIN boxes

\* the cleanup of the previous run of the effect, lines 305-307, left out
AbortPreviousOmitted(reqs, id) == reqs

\* the cleanup of the previous run of the effect, lines 305-307:
\* controller.abort() of the request that run started (0: it started none)
AbortPrevious(reqs, id) ==
    IF id = 0 THEN reqs
    ELSE [reqs EXCEPT ![id] = [@ EXCEPT !.aborted = TRUE]]

\* requestAnimationFrame(update), lines 81 and 84: the id of the new
\* callback.  Ids are told apart only among the callbacks still held, so the
\* least free one is taken.
RequestAnimationFrameId(held) ==
    CHOOSE n \in 1..(Cardinality(held) + 1) :
        n \notin held /\ \A m \in 1..(n - 1) : m \in held

\* the cleanup of line 85 left out
CancelAnimationFrameOmitted(held, id) == held

\* cancelAnimationFrame(animationFrameId), line 85
CancelAnimationFrame(held, id) == held \ {id}

\* One run of update (lines 30-82), the callback cb held by
\* requestAnimationFrame, with video.currentTime = now and video.seeking =
\* seeking, and the render of the list it publishes.  update ends by
\* requesting the next callback (line 81).  With no frame, frame.boxes throws
\* a TypeError while the updater runs; a TypeError of the updater or of the
\* render callback is thrown out of the render of the component, the
\* component is removed and the cleanups of its effects run (lines 85 and
\* 305-307).
Tick(now, seeking) ==
    \E cb \in rafCallbacks :
      /\ frame' = FrameAt(frames, now)
      /\ isSeeking' = SeekDetected(seeking, now, previousTime)
      /\ previousTime' = now
      /\ prevBoxes' = currentBoxes
      /\ currentBoxes' = IF frame' = UndefinedFrame THEN currentBoxes
                         ELSE UpdateBoxes(currentBoxes, frame', isSeeking', now)
      /\ tickResult' = IF frame' = UndefinedFrame THEN "TypeError"
                       ELSE IF RenderedBoxes(currentBoxes') # DOMAIN currentBoxes'
                       THEN "RenderTypeError"
                       ELSE "published"
      /\ animationFrameId' = RequestAnimationFrameId(rafCallbacks \ {cb})
      /\ rafCallbacks' =
            IF tickResult' = "published"
            THEN (rafCallbacks \ {cb}) \cup {animationFrameId'}
            ELSE CancelAnimationFrame((rafCallbacks \ {cb}) \cup {animationFrameId'},
                                      animationFrameId')
      /\ requests' = IF tickResult' = "published" THEN requests
                     ELSE AbortPrevious(requests, effectRequest)
      /\ UNCHANGED <<supplied, frames, holdDuration>>
      /\ UNCHANGED <<selectedBox, descriptionMapping, mappingError,
                     descriptionStatus, descriptionHtml, latestFetchRef,
                     effectRequest, paused, calls, selectedWhilePending>>
      /\ UNCHANGED <<focusVars, playerVars, appVars>>

----------------------------------------------------------------------------
(* Description Resolver: names and the mapping table                       *)

\* A name is a sequence of characters.
UpperCase == {"A", "B"}
LowerCase == {"a", "b", "c", "z"}
WhiteSpace == {" "}
Punctuation == {"_", "-", "."}
Alnum == UpperCase \cup LowerCase
NonAlnum == WhiteSpace \cup Punctuation

LowerChar(c) == CASE c = "A" -> "a" [] c = "B" -> "b" [] OTHER -> c

\* String.prototype.toLowerCase
ToLowerCase(n) == [i \in DOMAIN n |-> LowerChar(n[i])]

\* String.prototype.trim
RECURSIVE TrimStart(_)
TrimStart(n) ==
    IF n # <<>> /\ Head(n) \in WhiteSpace THEN TrimStart(Tail(n)) ELSE n
RECURSIVE TrimEnd(_)
TrimEnd(n) ==
    IF n # <<>> /\ n[Len(n)] \in WhiteSpace
    THEN TrimEnd(SubSeq(n, 1, Len(n) - 1)) ELSE n
Trim(n) == TrimEnd(TrimStart(n))

\* n.replace(/<class>+/g, sub): every maximal run of characters of the class
\* becomes one sub
RECURSIVE ReplaceRuns(_, _, _, _)
ReplaceRuns(n, class, sub, inRun) ==
    IF n = <<>> THEN <<>>
    ELSE IF Head(n) \in class
         THEN (IF inRun THEN <<>> ELSE <<sub>>)
                  \o ReplaceRuns(Tail(n), class, sub, TRUE)
         ELSE <<Head(n)>> \o ReplaceRuns(Tail(n), class, sub, FALSE)

\* the five variants of lines 126-132 and 249-255, in their order
NameVariants(trimmed) ==
    << trimmed,
       ToLowerCase(trimmed),
       ReplaceRuns(trimmed, WhiteSpace, "_", FALSE),
       ReplaceRuns(trimmed, WhiteSpace, "-", FALSE),
       ToLowerCase(ReplaceRuns(trimmed, NonAlnum, "_", FALSE)) >>

\* descriptionMapping === null
NoMapping == [loaded |-> FALSE, entries |-> <<>>]
Loaded(entries) == [loaded |-> TRUE, entries |-> entries]

\* lookup[variant] = value for every variant of one entry, lines 133-137
RECURSIVE PutVariants(_, _, _, _)
PutVariants(lookup, variants, i, value) ==
    IF i > Len(variants) THEN lookup
    ELSE PutVariants(IF variants[i] # <<>> THEN MapSet(lookup, variants[i], value)
                     ELSE lookup,
                     variants, i + 1, value)

\* Object.entries(descriptionMapping).forEach, lines 122-138
RECURSIVE LookupOf(_)
LookupOf(entries) ==
    IF entries = <<>> THEN <<>>
    ELSE LET before == LookupOf(SubSeq(entries, 1, Len(entries) - 1))
             e == entries[Len(entries)]
         IN IF e.key = <<>> \/ e.value = <<>> \/ Trim(e.key) = <<>>
            THEN before
            ELSE PutVariants(before, NameVariants(Trim(e.key)), 1, e.value)

\* useMemo of lines 119-140; a null lookup is told by mapping.loaded
MappingLookup(mapping) == LookupOf(mapping.entries)

\* utils/displayNames: display name by label id, <<>> when there is none
DisplayName(labelId) == IF labelId = 1 THEN <<"c">> ELSE <<>>

\* the candidates of lines 234-243, in insertion order
Candidates(box) ==
    LET first == IF box.label_name # <<>> THEN <<box.label_name>> ELSE <<>>
        dn == DisplayName(box.label_id)
    IN IF dn # <<>> /\ dn \notin Range(first) THEN Append(first, dn) ELSE first

\* lines 245-256
RECURSIVE KeysToTry(_)
KeysToTry(candidates) ==
    IF candidates = <<>> THEN <<>>
    ELSE LET trimmed == Trim(Head(candidates))
         IN (IF trimmed = <<>> THEN <<>> ELSE NameVariants(trimmed))
                \o KeysToTry(Tail(candidates))

\* line 258 falling back to the first entry of the table when no key hits
FirstHitOrFirstEntry(keys, lookup) ==
    IF lookup = <<>> THEN <<>> ELSE lookup[1][2]

\* keysToTry.map(key => mappingLookup[key]).find(Boolean) || null, line 258
RECURSIVE FirstHit(_, _)
FirstHit(keys, lookup) ==
    IF keys = <<>> THEN <<>>
    ELSE IF MapHas(lookup, Head(keys)) THEN MapGet(lookup, Head(keys))
    ELSE FirstHit(Tail(keys), lookup)

\* htmlPath of line 258, <<>> for null
HtmlPath(box, lookup) == FirstHit(KeysToTry(Candidates(box)), lookup)

----------------------------------------------------------------------------
(* Description Resolver: the effect of lines 221-308 and its fetches       *)

NoBox == [label_id |-> Undef, label_name |-> <<"null">>]
Empty == <<>>

\* normalizeHtmlContent(html, resolvedHtmlUrl) of the document at path
HtmlOf(path) == <<"article", path>>

\* lines 294-300 returning in every case
CatchIgnoredAlways(r, id) == TRUE

\* lines 294-300 without either check
CatchIgnoredNever(r, id) == FALSE

\* the early returns of the catch handler, lines 294-300
CatchIgnored(r, id) == r.aborted \/ latestFetchRef # id

\* One run of the effect (lines 221-308) on the values box, mapping, failed of
\* its dependencies, after the cleanup of the previous run.
RunEffect(box, mapping, failed) ==
    LET cleaned == AbortPrevious(requests, effectRequest)
        lookup == MappingLookup(mapping)
        path == HtmlPath(box, lookup)
    IN IF box = NoBox
       THEN /\ descriptionHtml' = Empty
            /\ descriptionStatus' = "idle"
            /\ requests' = cleaned
            /\ effectRequest' = 0
            /\ UNCHANGED latestFetchRef
       ELSE IF ~mapping.loaded \/ lookup = <<>>
       THEN /\ descriptionHtml' = Empty
            /\ descriptionStatus' = IF failed THEN "error" ELSE "loading"
            /\ requests' = cleaned
            /\ effectRequest' = 0
            /\ UNCHANGED latestFetchRef
       ELSE IF path = <<>>
       THEN /\ descriptionHtml' = Empty
            /\ descriptionStatus' = "missing"
            /\ requests' = cleaned
            /\ effectRequest' = 0
            /\ UNCHANGED latestFetchRef
       ELSE /\ Len(requests) < MaxFetches
            /\ latestFetchRef' = latestFetchRef + 1
            /\ descriptionStatus' = "loading"
            /\ requests' = Append(cleaned,
                                  [box |-> box, path |-> path,
                                   aborted |-> FALSE, outcome |-> "pending"])
            /\ effectRequest' = latestFetchRef + 1
            /\ UNCHANGED descriptionHtml

\* video.paused after a handler that made the calls cs
AfterCalls(p, cs) == p \/ (\E i \in DOMAIN cs : cs[i] = "pause")

\* lines 403-404 and 409-410 without the call of pause
SelectCallsNoPause == <<"setSelectedBox">>

\* the calls of onClick, and of onKeyDown on Enter or Space, in their order:
\* videoRef.current?.pause(); setSelectedBox(box), lines 403-404 and 409-410
SelectCalls == <<"pause", "setSelectedBox">>

\* the call of onClose, line 441
CloseCalls == <<"setSelectedBox">>

\* onClick / onKeyDown (Enter, Space) of an interactive region, lines 402-412.
\* The update of a click or key press is rendered and its effects are flushed
\* before any other callback runs, so the cleanup and the new run of the
\* effect belong to the same step.
Select(box) ==
    /\ OverlayMounted
    /\ calls' = SelectCalls
    /\ paused' = AfterCalls(paused, SelectCalls)
    /\ selectedBox' = box
    /\ selectedWhilePending' = ~descriptionMapping.loaded
    /\ RunEffect(box, descriptionMapping, mappingError)
    /\ UNCHANGED <<descriptionMapping, mappingError>>
    /\ UNCHANGED tickVars
    /\ UNCHANGED <<focusVars, playerVars, appVars>>

\* onClose of the modal, line 441, emptying the list of tracked boxes too
CloseClearingBoxes ==
    /\ OverlayMounted
    /\ selectedBox # NoBox
    /\ calls' = CloseCalls
    /\ paused' = AfterCalls(paused, CloseCalls)
    /\ selectedBox' = NoBox
    /\ selectedWhilePending' = FALSE
    /\ RunEffect(NoBox, descriptionMapping, mappingError)
    /\ currentBoxes' = <<>>
    /\ UNCHANGED <<descriptionMapping, mappingError>>
    /\ UNCHANGED <<supplied, frames, prevBoxes, previousTime, frame, isSeeking,
                   tickResult, holdDuration, animationFrameId, rafCallbacks>>
    /\ UNCHANGED <<focusVars, playerVars, appVars>>

\* onClose of the modal, line 441
Close ==
    /\ OverlayMounted
    /\ selectedBox # NoBox
    /\ calls' = CloseCalls
    /\ paused' = AfterCalls(paused, CloseCalls)
    /\ selectedBox' = NoBox
    /\ selectedWhilePending' = FALSE
    /\ RunEffect(NoBox, descriptionMapping, mappingError)
    /\ UNCHANGED <<descriptionMapping, mappingError>>
    /\ UNCHANGED tickVars
    /\ UNCHANGED <<focusVars, playerVars, appVars>>

\* the mapping document arrives, lines 102-106, the description effect not
\* running again for the selection
MappingLoadedNoRerun(entries) ==
    /\ OverlayMounted
    /\ ~descriptionMapping.loaded
    /\ descriptionMapping' = Loaded(entries)
    /\ UNCHANGED <<selectedBox, mappingError, descriptionStatus, descriptionHtml,
                   latestFetchRef, requests, effectRequest>>
    /\ UNCHANGED playVars
    /\ UNCHANGED tickVars
    /\ UNCHANGED <<focusVars, playerVars, appVars>>

\* the mapping document arrives, lines 102-106; mappingLookup changes, so the
\* description effect is cleaned up and runs again (dependencies, line 308)
MappingLoaded(entries) ==
    /\ OverlayMounted
    /\ ~descriptionMapping.loaded
    /\ descriptionMapping' = Loaded(entries)
    /\ RunEffect(selectedBox, Loaded(entries), mappingError)
    /\ UNCHANGED <<selectedBox, mappingError>>
    /\ UNCHANGED playVars
    /\ UNCHANGED tickVars
    /\ UNCHANGED <<focusVars, playerVars, appVars>>

\* the load of the mapping document fails, lines 107-112
MappingFailed ==
    /\ OverlayMounted
    /\ ~descriptionMapping.loaded
    /\ mappingError' = TRUE
    /\ descriptionMapping' = Loaded(<<>>)
    /\ RunEffect(selectedBox, Loaded(<<>>), TRUE)
    /\ UNCHANGED selectedBox
    /\ UNCHANGED playVars
    /\ UNCHANGED tickVars
    /\ UNCHANGED <<focusVars, playerVars, appVars>>

\* the fetch of request id delivers its document: the handler of lines
\* 285-292.  An aborted fetch delivers no document.
FetchSucceed(id) ==
    /\ id \in DOMAIN requests
    /\ requests[id].outcome = "pending"
    /\ ~requests[id].aborted
    /\ requests' = [requests EXCEPT ![id] = [@ EXCEPT !.outcome = "ok"]]
    /\ IF latestFetchRef # id
       THEN UNCHANGED <<descriptionHtml, descriptionStatus>>
       ELSE /\ descriptionHtml' = HtmlOf(requests[id].path)
            /\ descriptionStatus' = "ready"
    /\ UNCHANGED <<selectedBox, descriptionMapping, mappingError, latestFetchRef,
                   effectRequest>>
    /\ UNCHANGED playVars
    /\ UNCHANGED tickVars
    /\ UNCHANGED <<focusVars, playerVars, appVars>>

\* the fetch of request id is rejected (network error, response not ok, or
\* AbortError after an abort): the handler of lines 293-303
FetchFail(id) ==
    /\ id \in DOMAIN requests
    /\ requests[id].outcome = "pending"
    /\ requests' = [requests EXCEPT ![id] =
                       [@ EXCEPT !.outcome = IF requests[id].aborted THEN "aborted"
                                             ELSE "failed"]]
    /\ IF CatchIgnored(requests[id], id)
       THEN UNCHANGED <<descriptionHtml, descriptionStatus>>
       ELSE /\ descriptionHtml' = Empty
            /\ descriptionStatus' = "error"
    /\ UNCHANGED <<selectedBox, descriptionMapping, mappingError, latestFetchRef,
                   effectRequest>>
    /\ UNCHANGED playVars
    /\ UNCHANGED tickVars
    /\ UNCHANGED <<focusVars, playerVars, appVars>>

\* the user starts playback with the native controls of the video element
\* (line 324)
Play ==
    /\ OverlayMounted
    /\ paused
    /\ paused' = FALSE
    /\ UNCHANGED <<selectedBox, descriptionMapping, mappingError,
                   descriptionStatus, descriptionHtml, latestFetchRef, requests,
                   effectRequest, calls, selectedWhilePending>>
    /\ UNCHANGED tickVars
    /\ UNCHANGED <<focusVars, playerVars, appVars>>

\* state of the resolver when the component is mounted; the video does not
\* play by itself
DescIdle ==
    /\ selectedBox = NoBox
    /\ descriptionMapping = NoMapping
    /\ mappingError = FALSE
    /\ descriptionStatus = "idle"
    /\ descriptionHtml = Empty
    /\ latestFetchRef = 0
    /\ requests = <<>>
    /\ effectRequest = 0
    /\ paused = TRUE
    /\ calls = <<>>
    /\ selectedWhilePending = FALSE

----------------------------------------------------------------------------
(* Focus Classifier: the focus heuristics of the render callback           *)

\* A box is [x, y, w, h, conf, score] with x, y, w, h in units of 0.001 of
\* the frame and conf, score in units of 0.001.
Unit == 1000                 \* 1.0
CONTROL_ZONE_RATIO == 120    \* 0.12, line 7
CenterMin == 250             \* 0.25, line 345
CenterMax == 750             \* 0.75, line 345
SmallArea == 50000           \* 0.05 in units of 0.001 * 0.001, line 346
MinConfidence == 500         \* 0.5, line 347
BottomLimit == 850           \* 0.85, line 352
LeftLimit == 150             \* 0.15, line 353
RightLimit == 850            \* 0.85, line 354

Max(a, b) == IF a >= b THEN a ELSE b

\* Math.max(0, (videoRef.current?.currentTime ?? 0) - (box.lastSeen ?? 0)),
\* lines 335-338, for a video at playback time videoTime
TimeSinceSeen(box, videoTime) ==
    Max(0, videoTime - (IF box.lastSeen = Undef THEN 0 ELSE box.lastSeen))

\* the value of 0 / 0
NaN == <<0, 0>>

\* Math.min(1, timeSinceSeen / BOX_HOLD_DURATION), line 339, as
\* <<numerator, denominator>>: x / 0 is Infinity for x > 0 and NaN for x = 0,
\* and Math.min(1, NaN) is NaN
StaleProgress(box, videoTime, hold) ==
    LET since == TimeSinceSeen(box, videoTime)
    IN IF hold = 0 THEN (IF since = 0 THEN NaN ELSE <<1, 1>>)
       ELSE IF since >= hold THEN <<1, 1>> ELSE <<since, hold>>

\* box.conf ?? box.score, line 334
Confidence(b) == IF b.conf # Undef THEN b.conf ELSE b.score

\* twice centerX and twice centerY, lines 342-343
CenterX2(b) == 2 * b.x + b.w
CenterY2(b) == 2 * b.y + b.h

\* lines 344-345
IsCentered(b) ==
    /\ CenterX2(b) > 2 * CenterMin /\ CenterX2(b) < 2 * CenterMax
    /\ CenterY2(b) > 2 * CenterMin /\ CenterY2(b) < 2 * CenterMax

\* line 346
IsSmallBox(b) == b.w * b.h < SmallArea

\* line 347
HasConfidence(b) == Confidence(b) = Undef \/ Confidence(b) > MinConfidence

\* lines 350-354
BottomEdge(b) == b.y + b.h
RightEdge(b) == b.x + b.w
IsBottom(b) == BottomEdge(b) > BottomLimit
IsLeftSide(b) == b.x < LeftLimit
IsRightSide(b) == RightEdge(b) > RightLimit

\* line 355 without isRightSide
IsBlockingControlsLeftOnly(b) == IsBottom(b) /\ IsLeftSide(b)

\* line 355 with isBottom alone
IsBlockingControlsBottomOnly(b) == IsBottom(b)

\* line 355
IsBlockingControls(b) == IsBottom(b) /\ (IsLeftSide(b) \/ IsRightSide(b))

\* lines 357-358
IsFocused(b) ==
    (IsCentered(b) \/ IsSmallBox(b)) /\ HasConfidence(b) /\ ~IsBlockingControls(b)

\* lines 360-361
ControlTopBoundary == Unit - CONTROL_ZONE_RATIO
OverlapDepth(b) == Max(0, BottomEdge(b) - ControlTopBoundary)

\* line 362: the ratio as <<numerator, denominator>>
OverlapRatio(b) ==
    IF b.h > 0
    THEN (IF OverlapDepth(b) >= b.h THEN <<1, 1>> ELSE <<OverlapDepth(b), b.h>>)
    ELSE <<0, 1>>

\* line 364
HasInteractiveRegion(b) == IsFocused(b) /\ OverlapRatio(b)[1] < OverlapRatio(b)[2]

NoRenderBox == [x |-> 0, y |-> 0, w |-> 0, h |-> 0, conf |-> Undef, score |-> Undef]
NotRendered == [isFocused |-> FALSE, hasInteractiveRegion |-> FALSE,
                overlapRatio |-> <<0, 1>>, done |-> FALSE]

\* the render callback of lines 331-427 on the box renderBox
Render ==
    /\ ~rendered.done
    /\ rendered' = [isFocused |-> IsFocused(renderBox),
                    hasInteractiveRegion |-> HasInteractiveRegion(renderBox),
                    overlapRatio |-> OverlapRatio(renderBox),
                    done |-> TRUE]
    /\ UNCHANGED renderBox
    /\ UNCHANGED <<tickVars, descVars, playerVars, appVars>>

\* no box is being rendered
FocusIdle ==
    /\ renderBox = NoRenderBox
    /\ rendered = NotRendered

----------------------------------------------------------------------------
(* smile-ivp VideoPlayer: the ROIs of the current time                     *)

\* start-time and end-time are in seconds, played times in units of 0.01 s
Second == 100                \* one second
TimeScale == 103             \* the factor 1.03 in units of 0.01, line 21

\* the predicate of find, line 21
InScaledRange(fr, t) == t >= fr.start * TimeScale /\ t <= fr.end * TimeScale

\* roiData.frames.find(...), lines 20-23: the index of the first frame-range
\* item that satisfies the predicate, 0 for undefined
FindFrame(frs, t) ==
    IF \E i \in DOMAIN frs : InScaledRange(frs[i], t)
    THEN CHOOSE i \in DOMAIN frs :
             /\ InScaledRange(frs[i], t)
             /\ \A j \in 1..(i - 1) : ~InScaledRange(frs[j], t)
    ELSE 0

\* currentFrame?.objects || [], line 24
ROIsAt(data, t) ==
    IF FindFrame(data.frames, t) = 0 THEN <<>>
    ELSE data.frames[FindFrame(data.frames, t)].objects

\* handleProgress (lines 27-29) and the effect on [currentTime, roiData]
\* (lines 18-25) that the new currentTime triggers
HandleProgress(playedSeconds) ==
    /\ currentTime' = playedSeconds
    /\ currentROIs' = ROIsAt(roiData, playedSeconds)
    /\ UNCHANGED <<roiData, playing>>
    /\ UNCHANGED popupVars
    /\ UNCHANGED <<tickVars, descVars, focusVars, appVars>>

\* handlePlay, lines 36-38
HandlePlay ==
    /\ playing' = TRUE
    /\ UNCHANGED <<roiData, currentTime, currentROIs>>
    /\ UNCHANGED popupVars
    /\ UNCHANGED <<tickVars, descVars, focusVars, appVars>>

\* handlePause, lines 40-42
HandlePause ==
    /\ playing' = FALSE
    /\ UNCHANGED <<roiData, currentTime, currentROIs>>
    /\ UNCHANGED popupVars
    /\ UNCHANGED <<tickVars, descVars, focusVars, appVars>>

\* object.annotation and the document at object.infoURL of the object named o
Annotation(o) == <<"annotation", o>>
InfoContent(o) == <<"content", o>>

\* the content set by the catch block, src/smile-ivp/src/App.tsx lines
\* 173-179: it names the annotation and the URL of the object
ErrorContent(o) == <<"Error Loading Content", o>>

\* handleROIClick of the player (lines 31-34) and of App (App.tsx lines
\* 158-164) up to the await of the fetch.  The open dialog is modal: no ROI
\* can be clicked behind it.
HandleROIClick(o) ==
    /\ ~popupOpen
    /\ \E i \in DOMAIN currentROIs : currentROIs[i] = o
    /\ Len(popupFetches) < MaxClicks
    /\ playing' = FALSE
    /\ popupTitle' = Annotation(o)
    /\ isLoading' = TRUE
    /\ popupOpen' = TRUE
    /\ popupFetches' = Append(popupFetches, [object |-> o, outcome |-> "pending"])
    /\ UNCHANGED <<roiData, currentTime, currentROIs, popupContent>>
    /\ UNCHANGED <<tickVars, descVars, focusVars, appVars>>

\* onClose of the dialog, App.tsx line 198
ClosePopup ==
    /\ popupOpen
    /\ popupOpen' = FALSE
    /\ UNCHANGED <<roiData, currentTime, currentROIs, playing, popupContent,
                   popupTitle, isLoading, popupFetches>>
    /\ UNCHANGED <<tickVars, descVars, focusVars, appVars>>

\* the fetch of call i delivers its document: App.tsx lines 168-169, then
\* the finally block of lines 180-182
ContentArrives(i) ==
    /\ i \in DOMAIN popupFetches
    /\ popupFetches[i].outcome = "pending"
    /\ popupFetches' = [popupFetches EXCEPT ![i] = [@ EXCEPT !.outcome = "ok"]]
    /\ popupContent' = InfoContent(popupFetches[i].object)
    /\ isLoading' = FALSE
    /\ UNCHANGED <<roiData, currentTime, currentROIs, playing, popupOpen, popupTitle>>
    /\ UNCHANGED <<tickVars, descVars, focusVars, appVars>>

\* the fetch of call i is rejected or its response is not ok: the catch
\* block of App.tsx lines 170-179, then the finally block
ContentFails(i) ==
    /\ i \in DOMAIN popupFetches
    /\ popupFetches[i].outcome = "pending"
    /\ popupFetches' = [popupFetches EXCEPT ![i] = [@ EXCEPT !.outcome = "failed"]]
    /\ popupContent' = ErrorContent(popupFetches[i].object)
    /\ isLoading' = FALSE
    /\ UNCHANGED <<roiData, currentTime, currentROIs, playing, popupOpen, popupTitle>>
    /\ UNCHANGED <<tickVars, descVars, focusVars, appVars>>

\* no popup was opened yet
PopupIdle ==
    /\ popupOpen = FALSE
    /\ popupContent = Empty
    /\ popupTitle = Empty
    /\ isLoading = FALSE
    /\ popupFetches = <<>>

\* no player is mounted
PlayerIdle ==
    /\ roiData = [frames |-> <<>>]
    /\ currentTime = 0
    /\ currentROIs = <<>>
    /\ playing = FALSE
    /\ PopupIdle

----------------------------------------------------------------------------
(* App: loading the configuration and the ROI document (src/src/App.jsx)   *)

\* the notices of lines 99, 101 and 109, by the reason of pickMediaFromConfig
\* ("none": the configuration names a video and a ROI document)
ConfigNotice(reason) ==
    IF reason = "invalid"
    THEN "Media configuration is missing required fields. Using defaults."
    ELSE IF reason = "missing"
    THEN "Media configuration not found. Using defaults."
    ELSE IF reason = "failed"
    THEN "Could not load media configuration. Using defaults."
    ELSE NoNotice

\* the configuration document arrives, lines 94-105; the effect of lines
\* 118-155 then starts the load of the ROI document
ConfigLoaded(reason) ==
    /\ mediaSelection = NoMedia
    /\ mediaSelection' = IF reason = "none" THEN "config" ELSE "defaults"
    /\ configError' = ConfigNotice(reason)
    /\ error' = NoNotice
    /\ roi' = NoRoi
    /\ UNCHANGED <<tickVars, descVars, focusVars, playerVars>>

\* the load of the configuration fails, lines 106-111
ConfigFailed ==
    /\ mediaSelection = NoMedia
    /\ mediaSelection' = "defaults"
    /\ configError' = ConfigNotice("failed")
    /\ error' = NoNotice
    /\ roi' = NoRoi
    /\ UNCHANGED <<tickVars, descVars, focusVars, playerVars>>

\* the ROI document arrives, lines 141-145: App renders VideoOverlay, whose
\* first render sorts roi.frames (line 22) and whose effect of lines 24-86
\* reads video.currentTime and requests the first callback (line 84)
RoiLoaded(document) ==
    /\ AppView(mediaSelection, error, roi) = "Loading ROI"
    /\ roi' = document
    /\ supplied' = document.frames
    /\ frames' = SortFrames(document.frames)
    /\ previousTime' = 0
    /\ animationFrameId' = RequestAnimationFrameId(rafCallbacks)
    /\ rafCallbacks' = rafCallbacks \cup {animationFrameId'}
    /\ UNCHANGED <<currentBoxes, prevBoxes, frame, isSeeking, tickResult, holdDuration>>
    /\ UNCHANGED <<mediaSelection, configError, error>>
    /\ UNCHANGED <<descVars, focusVars, playerVars>>

\* the load of the ROI document fails (network error, response not ok, or
\* a body that is not JSON), lines 146-150
RoiFailed ==
    /\ AppView(mediaSelection, error, roi) = "Loading ROI"
    /\ error' = "Could not load ROI data."
    /\ UNCHANGED <<mediaSelection, configError, roi>>
    /\ UNCHANGED <<tickVars, descVars, focusVars, playerVars>>

\* App is mounted and nothing is loaded yet
AppIdle ==
    /\ mediaSelection = NoMedia
    /\ configError = NoNotice
    /\ roi = NoRoi
    /\ error = NoNotice

----------------------------------------------------------------------------
(* Specifications                                                          *)

\* state of the render loop when the effect of lines 24-86 has run
TickIdle ==
    /\ frames = SortFrames(supplied)
    /\ currentBoxes = <<>>
    /\ prevBoxes = <<>>
    /\ previousTime = 0
    /\ frame = UndefinedFrame
    /\ isSeeking = FALSE
    /\ tickResult = "none"
    /\ animationFrameId = RequestAnimationFrameId({})
    /\ rafCallbacks = {animationFrameId}

\* App has loaded the configuration and the ROI document `supplied`
AppLoaded ==
    /\ mediaSelection = "config"
    /\ configError = NoNotice
    /\ roi = RoiDocument(supplied)
    /\ error = NoNotice

SeqsUpTo(S, n) == UNION {[1..k -> S] : k \in 0..n}

\* Frame Index family: any order, equal timestamps allowed, frames told apart
\* by their boxes
IndexBox == [track_id |-> Undef, label_id |-> 1, bbox |-> 0]
IndexFrames == [t : 0..MaxStamp, boxes : {<<>>, <<IndexBox>>}]

InitIndex ==
    /\ supplied \in SeqsUpTo(IndexFrames, MaxFrames)
    /\ TickIdle
    /\ holdDuration = BOX_HOLD_DURATION
    /\ AppLoaded
    /\ DescIdle
    /\ FocusIdle
    /\ PlayerIdle

\* Box Tracker family: two frames, the first at 0 with up to MaxBoxes
\* detections, the second with at most one; a detection's bbox is the position
\* of the object at the timestamp of its frame
DetectionsAt(t) == [track_id : TrackIds, label_id : LabelIds, bbox : {t}]
TrackFramesAt(t, n) == [t : {t}, boxes : SeqsUpTo(DetectionsAt(t), n)]
TrackFrameLists ==
    UNION {{<<f1, f2>> : f1 \in TrackFramesAt(0, MaxBoxes), f2 \in TrackFramesAt(s, 1)} :
           s \in 1..MaxGap}

InitTrack ==
    /\ supplied \in TrackFrameLists
    /\ TickIdle
    /\ holdDuration = BOX_HOLD_DURATION
    /\ AppLoaded
    /\ DescIdle
    /\ FocusIdle
    /\ PlayerIdle

NextTick == \E now \in Times, seeking \in BOOLEAN : Tick(now, seeking)

\* Malformed family: as the Box Tracker family, with detections that have no
\* track_id and have or lack a bbox
MalformedDetectionsAt(t) == [track_id : {Undef}, label_id : LabelIds, bbox : {Undef, t}]
MalformedFramesAt(t, n) == [t : {t}, boxes : SeqsUpTo(MalformedDetectionsAt(t), n)]
MalformedFrameLists ==
    UNION {{<<f1, f2>> : f1 \in MalformedFramesAt(0, MaxBoxes),
                         f2 \in MalformedFramesAt(s, 1)} :
           s \in 1..MaxGap}

InitMalformed ==
    /\ supplied \in MalformedFrameLists
    /\ TickIdle
    /\ holdDuration = BOX_HOLD_DURATION
    /\ AppLoaded
    /\ DescIdle
    /\ FocusIdle
    /\ PlayerIdle

\* the Box Tracker family in a build whose BOX_HOLD_DURATION is 0
InitHoldZero ==
    /\ supplied \in TrackFrameLists
    /\ TickIdle
    /\ holdDuration = 0
    /\ AppLoaded
    /\ DescIdle
    /\ FocusIdle
    /\ PlayerIdle

\* Resolver family: a box whose name hits the key a_b through the normalised
\* variant, one whose name is that key, one that has only a display name;
\* each has no entry in some of the documents
SelectableBoxes ==
    { [label_id |-> 2, label_name |-> <<"A", " ", "B">>],
      [label_id |-> 2, label_name |-> <<"a", "_", "b">>],
      [label_id |-> 1, label_name |-> <<>>] }

\* a key in normalised form, a key with the same normalised form, another key
MappingEntries ==
    { [key |-> <<"a", "_", "b">>, value |-> <<"a.html">>],
      [key |-> <<"A", " ", "B">>, value |-> <<"b.html">>],
      [key |-> <<"c">>, value |-> <<"c.html">>] }

\* the entries of a JSON object have pairwise different keys
MappingDocuments ==
    {d \in SeqsUpTo(MappingEntries, MaxEntries) :
        \A i, j \in DOMAIN d : (i # j) => (d[i].key # d[j].key)}

\* state of the render loop after its first run, at time 0: a box can be
\* selected only once it is published
TickedOnce ==
    /\ frames = SortFrames(supplied)
    /\ frame = FrameAt(frames, 0)
    /\ currentBoxes = UpdateBoxes(<<>>, frame, FALSE, 0)
    /\ prevBoxes = <<>>
    /\ previousTime = 0
    /\ isSeeking = FALSE
    /\ tickResult = "published"
    /\ animationFrameId = RequestAnimationFrameId({})
    /\ rafCallbacks = {animationFrameId}

InitDesc ==
    /\ supplied = <<[t |-> 0, boxes |-> <<IndexBox>>]>>
    /\ TickedOnce
    /\ holdDuration = BOX_HOLD_DURATION
    /\ AppLoaded
    /\ DescIdle
    /\ FocusIdle
    /\ PlayerIdle

NextDesc ==
    \/ \E box \in SelectableBoxes : Select(box)
    \/ Close
    \/ \E entries \in MappingDocuments : MappingLoaded(entries)
    \/ MappingFailed
    \/ \E id \in 1..MaxFetches : FetchSucceed(id)
    \/ \E id \in 1..MaxFetches : FetchFail(id)
    \/ Play

\* App family: the page from its mount on.  ROI documents: no frames; one
\* frame; two frames out of order, the later one with a box without bbox.
\* The boxes that can be selected are the published ones: one with a display
\* name, which hits the key c, and one without a hit.
UnnamedBox == [track_id |-> Undef, label_id |-> 2, bbox |-> Undef]
AppRoiDocuments ==
    { RoiDocument(<<>>),
      RoiDocument(<<[t |-> 0, boxes |-> <<IndexBox>>]>>),
      RoiDocument(<<[t |-> 1, boxes |-> <<UnnamedBox>>],
                    [t |-> 0, boxes |-> <<IndexBox>>]>>) }
AppTimes == 0..MaxGap
AppBoxes ==
    { [label_id |-> 1, label_name |-> <<>>],
      [label_id |-> 2, label_name |-> <<"a", "_", "b">>] }
AppMappings == {<<>>, <<[key |-> <<"c">>, value |-> <<"c.html">>]>>}

InitApp ==
    /\ AppIdle
    /\ supplied = <<>>
    /\ frames = <<>>
    /\ currentBoxes = <<>>
    /\ prevBoxes = <<>>
    /\ previousTime = 0
    /\ frame = UndefinedFrame
    /\ isSeeking = FALSE
    /\ tickResult = "none"
    /\ holdDuration = BOX_HOLD_DURATION
    /\ animationFrameId = 0
    /\ rafCallbacks = {}
    /\ DescIdle
    /\ FocusIdle
    /\ PlayerIdle

NextApp ==
    \/ \E reason \in {"none", "invalid", "missing"} : ConfigLoaded(reason)
    \/ ConfigFailed
    \/ \E document \in AppRoiDocuments : RoiLoaded(document)
    \/ RoiFailed
    \/ \E now \in AppTimes, seeking \in BOOLEAN : Tick(now, seeking)
    \/ \E box \in AppBoxes : currentBoxes # <<>> /\ Select(box)
    \/ Close
    \/ \E entries \in AppMappings : MappingLoaded(entries)
    \/ MappingFailed
    \/ \E id \in 1..MaxFetches : FetchSucceed(id)
    \/ \E id \in 1..MaxFetches : FetchFail(id)

\* Focus Classifier family: boxes inside the frame with edges and centres on
\* and off the limits of the heuristics
Positions == {0, 100, 150, 200, 250, 350, 500, 850, 880, 900}
Extents == {0, 50, 100, 120, 300, 500, 600, 1000}
Confidences == {<<Undef, Undef>>, <<900, Undef>>, <<500, Undef>>, <<Undef, 400>>}
FocusBoxes ==
    {[x |-> px, y |-> py, w |-> ew, h |-> eh, conf |-> c[1], score |-> c[2]] :
        px \in Positions, py \in Positions, ew \in Extents, eh \in Extents,
        c \in Confidences}

InitFocus ==
    /\ supplied = <<>>
    /\ TickIdle
    /\ holdDuration = BOX_HOLD_DURATION
    /\ AppLoaded
    /\ DescIdle
    /\ PlayerIdle
    /\ renderBox \in {b \in FocusBoxes : RightEdge(b) <= Unit /\ BottomEdge(b) <= Unit}
    /\ rendered = NotRendered

NextFocus == Render

\* smile-ivp family: up to MaxRanges frame-range items in any order, ranges
\* that touch, overlap or repeat included; played times on and between the
\* ends of the ranges and of the ranges scaled by 1.03
RoiObjects == {<<"o1">>, <<"o2">>}
FrameRanges ==
    {r \in [start : 0..2, end : 0..2, objects : RoiObjects] : r.start <= r.end}
PlayedTimes == {0, 50, 100, 103, 150, 200, 206}

\* the player is mounted: the effect of lines 18-25 has run with currentTime 0
InitPlayer ==
    /\ supplied = <<>>
    /\ TickIdle
    /\ holdDuration = BOX_HOLD_DURATION
    /\ AppLoaded
    /\ DescIdle
    /\ FocusIdle
    /\ roiData \in {[frames |-> frs] : frs \in SeqsUpTo(FrameRanges, MaxRanges)}
    /\ currentTime = 0
    /\ currentROIs = ROIsAt(roiData, 0)
    /\ playing = FALSE
    /\ PopupIdle

NextPlayer ==
    \/ \E playedSeconds \in PlayedTimes : HandleProgress(playedSeconds)
    \/ HandlePlay
    \/ HandlePause

\* smile-ivp popup family: a document with one object in the first second and
\* another one after it; up to MaxClicks clicks on the objects shown, each
\* content fetch completing or failing at any later moment
PopupDocuments ==
    {[frames |-> <<[start |-> 0, end |-> 1, objects |-> <<"o1">>],
                   [start |-> 1, end |-> 2, objects |-> <<"o2">>]>>]}

InitPopup ==
    /\ supplied = <<>>
    /\ TickIdle
    /\ holdDuration = BOX_HOLD_DURATION
    /\ AppLoaded
    /\ DescIdle
    /\ FocusIdle
    /\ roiData \in PopupDocuments
    /\ currentTime = 0
    /\ currentROIs = ROIsAt(roiData, 0)
    /\ playing = FALSE
    /\ PopupIdle

NextPopup ==
    \/ \E playedSeconds \in PlayedTimes : HandleProgress(playedSeconds)
    \/ HandlePlay
    \/ HandlePause
    \/ \E o \in {"o1", "o2"} : HandleROIClick(o)
    \/ ClosePopup
    \/ \E i \in 1..MaxClicks : ContentArrives(i)
    \/ \E i \in 1..MaxClicks : ContentFails(i)

SpecIndex == InitIndex /\ [][NextTick]_vars
SpecTrack == InitTrack /\ [][NextTick]_vars
SpecDesc == InitDesc /\ [][NextDesc]_vars
SpecFocus == InitFocus /\ [][NextFocus]_vars
SpecApp == InitApp /\ [][NextApp]_vars
SpecMalformed == InitMalformed /\ [][NextTick]_vars
SpecHoldZero == InitHoldZero /\ [][NextTick]_vars
SpecPlayer == InitPlayer /\ [][NextPlayer]_vars
SpecPopup == InitPopup /\ [][NextPopup]_vars

----------------------------------------------------------------------------
(* Frame Index, checked under SpecIndex                                    *)

\* the time read by the last run of update (line 40 stores it)
tickNow == previousTime

AtOrBefore(t) == {i \in DOMAIN frames : frames[i].t <= t}

\* C1: on a non-empty frame list, the frame chosen by a tick at time t has
\* the greatest timestamp <= t, and is the first frame when every timestamp
\* is greater than t.
C1_GreatestAtOrBefore ==
    (tickResult = "published") =>
        IF AtOrBefore(tickNow) = {}
        THEN frame = frames[1]
        ELSE /\ \E i \in AtOrBefore(tickNow) : frame = frames[i]
             /\ \A i \in AtOrBefore(tickNow) : frames[i].t <= frame.t

\* frames supplied out of order, a tick strictly between two timestamps
C1_Witness ==
    /\ tickResult = "published"
    /\ Len(frames) = 3
    /\ supplied # frames
    /\ frames[2].t < tickNow
    /\ tickNow < frames[3].t
    /\ frame = frames[2]

\* C2: on an empty frame list a tick fails with EmptyData, and no undefined
\* frame is handed to the box tracker.
C2_EmptyData ==
    (frames = <<>> /\ tickResult # "none") =>
        (tickResult = "EmptyData" /\ frame # UndefinedFrame)

\* C10 as stated: a tick at the timestamp of any frame of the list chooses
\* exactly that frame.
C10_RoundTripEveryFrame ==
    (tickResult = "published") =>
        \A i \in DOMAIN supplied : (supplied[i].t = tickNow) => (frame = supplied[i])

LastWithItsStamp(i) ==
    \A j \in DOMAIN supplied : (j > i) => (supplied[j].t # supplied[i].t)

\* C10 amended: a tick at the timestamp of a frame chooses that frame when
\* no frame supplied after it has the same timestamp; of frames with equal
\* timestamps the last supplied is chosen.
C10_RoundTripLastSupplied ==
    (tickResult = "published") =>
        \A i \in DOMAIN supplied :
            (supplied[i].t = tickNow /\ LastWithItsStamp(i)) => (frame = supplied[i])

C10_Witness ==
    /\ tickResult = "published"
    /\ Len(supplied) = 3
    /\ supplied[1].t > supplied[3].t
    /\ supplied[2].t = supplied[3].t
    /\ supplied[2] # supplied[3]
    /\ tickNow = supplied[3].t
    /\ frame = supplied[3]

\* C11: the lookup is monotone: the frame chosen by a tick at time now has a
\* timestamp >= that of the frame the lookup returns for every earlier time
\* and <= that of the frame it returns for every later time, whatever the
\* order in which the frames were supplied.
C11_Monotone ==
    (tickResult = "published") =>
        \A t \in Times :
            /\ (t < tickNow) => (FrameAt(frames, t).t <= frame.t)
            /\ (t > tickNow) => (frame.t <= FrameAt(frames, t).t)

\* frames supplied in descending order, a tick between an earlier and a later
\* time whose frames have a smaller and a greater timestamp
C11_Witness ==
    /\ tickResult = "published"
    /\ Len(supplied) = 3
    /\ supplied[1].t > supplied[2].t
    /\ supplied[2].t > supplied[3].t
    /\ \E t1, t2 \in Times :
         /\ t1 < tickNow
         /\ tickNow < t2
         /\ FrameAt(frames, t1).t < frame.t
         /\ frame.t < FrameAt(frames, t2).t

----------------------------------------------------------------------------
(* Description Resolver, checked under SpecDesc                            *)

Completes(id) ==
    /\ id \in DOMAIN requests
    /\ requests[id].outcome = "pending"
    /\ requests'[id].outcome # "pending"

\* C3: when a selection with a fetch is replaced by another selection with a
\* fetch, the completion of the first fetch, whenever it comes and however it
\* ends, changes neither the status nor the content; the result of the fetch
\* of the current selection is the one applied.
C3_LastSelectionWins ==
    [][\A id \in 1..MaxFetches :
         Completes(id) =>
           IF id # latestFetchRef
           THEN UNCHANGED <<descriptionStatus, descriptionHtml>>
           ELSE (requests'[id].outcome = "ok")
                  => /\ requests[id].box = selectedBox
                     /\ descriptionStatus' = "ready"
                     /\ descriptionHtml' = HtmlOf(requests[id].path)]_vars

\* box A's fetch ended after box B was selected, and B's content is shown
C3_Witness ==
    /\ Len(requests) = 2
    /\ requests[1].box # requests[2].box
    /\ requests[1].path # requests[2].path
    /\ requests[1].outcome = "aborted"
    /\ requests[2].outcome = "ok"
    /\ selectedBox = requests[2].box
    /\ descriptionStatus = "ready"
    /\ descriptionHtml = HtmlOf(requests[2].path)

\* C4: while there is no selection the resolver is idle with empty content,
\* also after the fetch of the closed selection has ended.
C4_IdleWhileClosed ==
    (selectedBox = NoBox) =>
        (descriptionStatus = "idle" /\ descriptionHtml = Empty)

\* the fetch of the closed selection ended after the close
C4_Witness ==
    /\ selectedBox = NoBox
    /\ latestFetchRef = 1
    /\ requests[1].outcome = "aborted"

\* C12: when the mapping failed to load or was loaded as an empty table,
\* every selection puts the resolver in `missing`, not `loading` and not
\* `error`.
C12_EmptyMappingMissing ==
    (/\ selectedBox # NoBox
     /\ descriptionMapping.loaded
     /\ descriptionMapping.entries = <<>>)
    => (descriptionStatus = "missing")

\* C13: when the fetch started by the current run of the effect (the selection
\* has not changed since) is rejected by a network error or a response that
\* is not ok, the resolver ends in `error` with empty content, and the
\* published list of tracked boxes is not changed.
C13_FetchFailure ==
    [][\A id \in 1..MaxFetches :
         (/\ Completes(id)
          /\ requests'[id].outcome = "failed"
          /\ id = effectRequest
          /\ requests[id].box = selectedBox)
         => (/\ descriptionStatus' = "error"
             /\ descriptionHtml' = Empty
             /\ currentBoxes' = currentBoxes)]_vars

\* the fetch of the selected box has failed while a box is published
C13_Witness ==
    /\ effectRequest \in DOMAIN requests
    /\ requests[effectRequest].outcome = "failed"
    /\ requests[effectRequest].box = selectedBox
    /\ descriptionStatus = "error"
    /\ descriptionHtml = Empty
    /\ ~mappingError
    /\ currentBoxes # <<>>

\* the normalised form of a name: runs of characters that are not
\* alphanumeric replaced by '_', then lower case
Normalised(n) == ToLowerCase(ReplaceRuns(n, NonAlnum, "_", FALSE))

\* C14: for every key k of the mapping and every box whose label has the
\* normalised form k, selecting the box resolves to the path stored under k
\* and a fetch of that path is started.
C14_NormalisedLookup ==
    (selectedBox # NoBox /\ descriptionMapping.loaded) =>
        \A i \in DOMAIN descriptionMapping.entries :
            (Normalised(selectedBox.label_name) = descriptionMapping.entries[i].key)
            => (/\ effectRequest \in DOMAIN requests
                /\ requests[effectRequest].box = selectedBox
                /\ requests[effectRequest].path = descriptionMapping.entries[i].value)

\* in the calls cs every setSelectedBox comes after a pause
PauseBeforeSet(cs) ==
    \A j \in DOMAIN cs :
        (cs[j] = "setSelectedBox") => (\E i \in 1..(j - 1) : cs[i] = "pause")

\* C17: the handler that sets a selection calls pause on the video before it
\* sets the selection, so the video is paused whenever a selection is set;
\* the handler that closes the selection leaves the video paused or playing
\* as it was.
C17_PauseOnSelection ==
    [][/\ (selectedBox' # NoBox /\ selectedBox' # selectedBox)
           => (PauseBeforeSet(calls') /\ paused')
       /\ (selectedBox # NoBox /\ selectedBox' = NoBox)
           => (paused' = paused)]_vars

\* a selection whose fetch was started has been closed, and the video is
\* still paused
C17_Witness ==
    /\ selectedBox = NoBox
    /\ calls = <<"setSelectedBox">>
    /\ requests # <<>>
    /\ paused

\* none of the name variants of the box is a key of the lookup table of the
\* loaded mapping, which is not empty
NoVariantHits(box) ==
    LET lookup == MappingLookup(descriptionMapping)
        keys == KeysToTry(Candidates(box))
    IN /\ descriptionMapping.loaded
       /\ lookup # <<>>
       /\ \A i \in DOMAIN keys : ~MapHas(lookup, keys[i])

C24_TransitionOrder ==
    [][/\ (selectedBox' # NoBox /\ selectedBox' # selectedBox)
           => (descriptionStatus' = "loading")
       /\ (/\ descriptionStatus' \in {"ready", "missing", "error"}
           /\ descriptionStatus' # descriptionStatus)
           => (descriptionStatus = "loading")]_vars

\* C25: once the mapping load has completed, the resolver is in `loading` for
\* a selection only while the fetch started for that selection has not yet
\* completed; with no fetch, or a completed one, it has left `loading`.
C25_LoadingOnlyWhileFetching ==
    (/\ descriptionMapping.loaded
     /\ selectedBox # NoBox
     /\ descriptionStatus = "loading")
    => (/\ effectRequest \in DOMAIN requests
        /\ requests[effectRequest].box = selectedBox
        /\ requests[effectRequest].outcome = "pending")

\* C32: status idle, missing or error implies empty content; the status is
\* idle exactly when there is no selection; status ready implies a selection
\* and the content fetched from the path the selection resolves to.
C32_StateConsistency ==
    /\ (descriptionStatus \in {"idle", "missing", "error"})
          => (descriptionHtml = Empty)
    /\ (descriptionStatus = "idle") <=> (selectedBox = NoBox)
    /\ (descriptionStatus = "ready")
          => (/\ selectedBox # NoBox
              /\ HtmlPath(selectedBox, MappingLookup(descriptionMapping)) # <<>>
              /\ descriptionHtml =
                    HtmlOf(HtmlPath(selectedBox, MappingLookup(descriptionMapping))))

\* the content of the second selection is shown after the first one's fetch
\* was aborted
C32_Witness ==
    /\ descriptionStatus = "ready"
    /\ Len(requests) = 2
    /\ requests[1].outcome = "aborted"
    /\ requests[1].path # requests[2].path
    /\ descriptionHtml = HtmlOf(requests[2].path)

\* C34: for every key of the loaded mapping that is character for character
\* a candidate name of the selected box, the path resolved and fetched is the
\* value stored under that key, whatever the other keys and their order.
C34_ExactKeyWins ==
    (selectedBox # NoBox /\ descriptionMapping.loaded) =>
        \A i \in DOMAIN descriptionMapping.entries :
            (\E c \in DOMAIN Candidates(selectedBox) :
                 Candidates(selectedBox)[c] = descriptionMapping.entries[i].key)
            => (/\ HtmlPath(selectedBox, MappingLookup(descriptionMapping))
                      = descriptionMapping.entries[i].value
                /\ effectRequest \in DOMAIN requests
                /\ requests[effectRequest].path = descriptionMapping.entries[i].value)

\* the state of the resolver that a selection of box made with the mapping
\* loaded ends in: missing when no key is hit, otherwise the request of the
\* effect is the fetch of the resolved path, and the status follows its
\* outcome
ResolvedAsAfterLoad(box, mapping) ==
    LET path == HtmlPath(box, MappingLookup(mapping))
    IN IF path = <<>>
       THEN /\ descriptionStatus = "missing"
            /\ descriptionHtml = Empty
            /\ effectRequest = 0
       ELSE /\ effectRequest \in DOMAIN requests
            /\ effectRequest = latestFetchRef
            /\ requests[effectRequest].box = box
            /\ requests[effectRequest].path = path
            /\ ~requests[effectRequest].aborted
            /\ requests[effectRequest].outcome = "pending"
                  => descriptionStatus = "loading"
            /\ requests[effectRequest].outcome = "ok"
                  => (descriptionStatus = "ready" /\ descriptionHtml = HtmlOf(path))
            /\ requests[effectRequest].outcome = "failed"
                  => (descriptionStatus = "error" /\ descriptionHtml = Empty)
            /\ requests[effectRequest].outcome \in {"pending", "ok", "failed"}

\* C35: while the mapping load is pending a selection shows loading and no
\* fetch has been started; once the load has ended with a non-empty table, a
\* box selected before the end of the load is resolved as a box selected
\* after it: missing without a hit, otherwise the fetch of the resolved path
\* is the current request and the status follows its outcome.
C35_SelectionBeforeMapping ==
    /\ (selectedBox # NoBox /\ ~descriptionMapping.loaded)
          => (/\ descriptionStatus = "loading"
              /\ descriptionHtml = Empty
              /\ effectRequest = 0
              /\ requests = <<>>)
    /\ (/\ selectedBox # NoBox
        /\ descriptionMapping.loaded
        /\ MappingLookup(descriptionMapping) # <<>>)
          => ResolvedAsAfterLoad(selectedBox, descriptionMapping)

\* a box selected before the mapping arrived has its description shown
C35_Witness ==
    /\ selectedBox # NoBox
    /\ selectedWhilePending
    /\ descriptionMapping.loaded
    /\ MappingLookup(descriptionMapping) # <<>>
    /\ descriptionStatus = "ready"
    /\ descriptionHtml = HtmlOf(HtmlPath(selectedBox, MappingLookup(descriptionMapping)))

----------------------------------------------------------------------------
(* Box Tracker, checked under SpecTrack                                    *)

FrameKeys(f) == {BoxKey(f.boxes[i]) : i \in DOMAIN f.boxes}

\* C5: a tick that detects a seek publishes exactly the boxes of the active
\* frame, each with lastSeen = now, and nothing of the previous list.
C5_SeekReset ==
    [][(/\ tickResult' = "published"
        /\ (isSeeking' \/ Abs(previousTime' - previousTime) > SEEK_THRESHOLD))
       => (/\ Len(currentBoxes') = Len(frame'.boxes)
           /\ \A i \in DOMAIN frame'.boxes :
                 currentBoxes'[i] =
                     [track_id |-> frame'.boxes[i].track_id,
                      label_id |-> frame'.boxes[i].label_id,
                      bbox |-> frame'.boxes[i].bbox,
                      lastSeen |-> previousTime'])]_vars

\* a seek tick whose previous list had a box of another identity that a tick
\* without seek would have held
C5_Witness ==
    /\ tickResult = "published"
    /\ isSeeking
    /\ frame.boxes # <<>>
    /\ \E i \in DOMAIN prevBoxes :
         /\ BoxKey(prevBoxes[i]) \notin FrameKeys(frame)
         /\ prevBoxes[i].lastSeen <= tickNow
         /\ tickNow - prevBoxes[i].lastSeen <= BOX_HOLD_DURATION

\* C6 as stated: on a tick without seek, every box of the previous list whose
\* key is not in the active frame and with now - lastSeen <= HOLD_DURATION is
\* still published, unchanged.
C6_HoldOverEveryBox ==
    (tickResult = "published" /\ ~isSeeking) =>
        \A i \in DOMAIN prevBoxes :
            (/\ BoxKey(prevBoxes[i]) \notin FrameKeys(frame)
             /\ tickNow - prevBoxes[i].lastSeen <= BOX_HOLD_DURATION)
            => (\E j \in DOMAIN currentBoxes : currentBoxes[j] = prevBoxes[i])

LastOfItsKey(i) ==
    \A k \in DOMAIN prevBoxes :
        (k > i) => (BoxKey(prevBoxes[k]) # BoxKey(prevBoxes[i]))

\* C6 amended: on a tick without seek, every box of the previous list that is
\* the last of that list with its key, whose key is not in the active frame
\* and with 0 <= now - lastSeen <= HOLD_DURATION is still published, unchanged.
C6_HoldOverLastOfKey ==
    (tickResult = "published" /\ ~isSeeking) =>
        \A i \in DOMAIN prevBoxes :
            (/\ BoxKey(prevBoxes[i]) \notin FrameKeys(frame)
             /\ LastOfItsKey(i)
             /\ prevBoxes[i].lastSeen <= tickNow
             /\ tickNow - prevBoxes[i].lastSeen <= BOX_HOLD_DURATION)
            => (\E j \in DOMAIN currentBoxes : currentBoxes[j] = prevBoxes[i])

\* a box held at the end of its window, after the detections of the active
\* frame
C6_Witness ==
    /\ tickResult = "published"
    /\ ~isSeeking
    /\ frame.boxes # <<>>
    /\ \E i \in DOMAIN prevBoxes :
         /\ tickNow - prevBoxes[i].lastSeen = BOX_HOLD_DURATION
         /\ BoxKey(prevBoxes[i]) \notin FrameKeys(frame)
         /\ LastOfItsKey(i)
         /\ \E j \in DOMAIN currentBoxes :
              j > Len(frame.boxes) /\ currentBoxes[j] = prevBoxes[i]

\* C7: after every tick every published box has 0 <= now - lastSeen <=
\* HOLD_DURATION.
C7_StalenessBound ==
    (tickResult = "published") =>
        \A i \in DOMAIN currentBoxes :
            /\ currentBoxes[i].lastSeen <= tickNow
            /\ tickNow - currentBoxes[i].lastSeen <= BOX_HOLD_DURATION

\* a tick without seek at a time before the previous one: the previous list
\* had a box seen after now whose key the active frame lacks
C7_Witness ==
    /\ tickResult = "published"
    /\ ~isSeeking
    /\ \E i \in DOMAIN prevBoxes :
         /\ prevBoxes[i].lastSeen > tickNow
         /\ BoxKey(prevBoxes[i]) \notin FrameKeys(frame)
    /\ currentBoxes # <<>>

\* C8: after every tick no two published boxes have the same identity key.
C8_UniqueKeys ==
    (tickResult = "published") =>
        \A i, j \in DOMAIN currentBoxes :
            (i # j) => (BoxKey(currentBoxes[i]) # BoxKey(currentBoxes[j]))

\* C9: at every tick each detection of the active frame is published, at its
\* place, with its own fields and lastSeen = now; and when the active frame
\* is empty and began more than HOLD_DURATION ago, nothing is published.
C9_ActiveFramePublished ==
    (tickResult = "published") =>
        /\ Len(currentBoxes) >= Len(frame.boxes)
        /\ \A i \in DOMAIN frame.boxes :
             /\ currentBoxes[i].label_id = frame.boxes[i].label_id
             /\ currentBoxes[i].bbox = frame.boxes[i].bbox
             /\ (frame.boxes[i].track_id # Undef)
                   => (currentBoxes[i].track_id = frame.boxes[i].track_id)
             /\ currentBoxes[i].lastSeen = tickNow
        /\ (frame = frames[2] /\ frame.boxes = <<>>
               /\ tickNow - frame.t > BOX_HOLD_DURATION)
             => (currentBoxes = <<>>)

\* a tick without seek that merged a detection with the box of the same key
\* published at another position, and held a box of another key
C9_Witness ==
    /\ tickResult = "published"
    /\ ~isSeeking
    /\ \E i \in DOMAIN frame.boxes, j \in DOMAIN prevBoxes :
         /\ BoxKey(prevBoxes[j]) = BoxKey(frame.boxes[i])
         /\ prevBoxes[j].bbox # frame.boxes[i].bbox
    /\ Len(currentBoxes) > Len(frame.boxes)

StrictlyBetween(v, a, b) == (a < v /\ v < b) \/ (b < v /\ v < a)

\* C19: on a tick without seek, when an identity is both in the previous
\* list and in the active frame with another bbox, the published bbox is a
\* blend of the two, strictly between them, not the bbox of the detection.
C19_MergeInterpolates ==
    (tickResult = "published" /\ ~isSeeking) =>
        \A i \in DOMAIN frame.boxes, j \in DOMAIN prevBoxes :
            (/\ BoxKey(prevBoxes[j]) = BoxKey(frame.boxes[i])
             /\ LastOfItsKey(j)
             /\ \A k \in 1..(i - 1) : BoxKey(frame.boxes[k]) # BoxKey(frame.boxes[i])
             /\ prevBoxes[j].bbox # frame.boxes[i].bbox)
            => StrictlyBetween(currentBoxes[i].bbox, prevBoxes[j].bbox,
                               frame.boxes[i].bbox)

\* C33: on a tick without seek, every published box of the active frame whose
\* key was in the previous list has the track_id, label_id and bbox of the
\* current detection, an absent field staying absent.
C33_OnlyCurrentDetection ==
    (tickResult = "published" /\ ~isSeeking) =>
        \A i \in DOMAIN frame.boxes :
            (\E j \in DOMAIN prevBoxes : BoxKey(prevBoxes[j]) = BoxKey(frame.boxes[i]))
            => (/\ currentBoxes[i].track_id = frame.boxes[i].track_id
                /\ currentBoxes[i].label_id = frame.boxes[i].label_id
                /\ currentBoxes[i].bbox = frame.boxes[i].bbox)

\* a tick without seek that follows a published tick at the same playback time
RepeatedTick ==
    /\ tickResult = "published"
    /\ tickResult' = "published"
    /\ previousTime' = previousTime
    /\ ~isSeeking'

\* C36: a tick repeated at an unchanged playback time without seek publishes
\* a list with the same membership, the same identity keys in the same places,
\* and every held box, a box whose key the active frame lacks, keeps its bbox
\* and its lastSeen: it is neither evicted nor stamped again.
C36_TickIdempotent ==
    [][RepeatedTick
       => (/\ Len(currentBoxes') = Len(currentBoxes)
           /\ \A i \in DOMAIN currentBoxes :
                 /\ BoxKey(currentBoxes'[i]) = BoxKey(currentBoxes[i])
                 /\ (BoxKey(currentBoxes[i]) \notin FrameKeys(frame'))
                       => (/\ currentBoxes'[i].bbox = currentBoxes[i].bbox
                           /\ currentBoxes'[i].lastSeen = currentBoxes[i].lastSeen))]_vars

\* the list published twice at one playback time holds a box of an earlier
\* frame, seen before that time
C36_Witness ==
    /\ tickResult = "published"
    /\ ~isSeeking
    /\ prevBoxes = currentBoxes
    /\ \E i \in DOMAIN currentBoxes :
         /\ currentBoxes[i].lastSeen < tickNow
         /\ BoxKey(currentBoxes[i]) \notin FrameKeys(frame)
    /\ \E i \in DOMAIN currentBoxes : currentBoxes[i].lastSeen = tickNow

----------------------------------------------------------------------------
(* Box Tracker with BOX_HOLD_DURATION = 0, checked under SpecHoldZero      *)

\* the published list is the list of the boxes of the active frame
ExactlyActiveFrame ==
    /\ Len(currentBoxes) = Len(frame.boxes)
    /\ \A i \in DOMAIN frame.boxes :
          /\ currentBoxes[i].label_id = frame.boxes[i].label_id
          /\ currentBoxes[i].bbox = frame.boxes[i].bbox
          /\ currentBoxes[i].lastSeen = tickNow

\* C26: with the hold constant 0 every tick completes without error and
\* publishes exactly the boxes of the active frame, and rendering the list at
\* the playback time of the tick computes a defined staleness value for every
\* box.
C26_HoldZero ==
    (holdDuration = 0 /\ tickResult # "none") =>
        /\ tickResult = "published"
        /\ ExactlyActiveFrame
        /\ \A i \in DOMAIN currentBoxes :
              StaleProgress(currentBoxes[i], tickNow, holdDuration) # NaN

----------------------------------------------------------------------------
(* Boxes without bbox, checked under SpecMalformed                         *)

\* C27: a tick whose list holds a box without bbox does not abort, publishes
\* every box of the active frame, and the render of the list skips only the
\* boxes without bbox: every other box of the list is rendered.
C27_MalformedSkipped ==
    (tickResult # "none") =>
        /\ tickResult # "TypeError"
        /\ Len(currentBoxes) >= Len(frame.boxes)
        /\ \A i \in DOMAIN currentBoxes :
              (currentBoxes[i].bbox # Undef) => (i \in RenderedBoxes(currentBoxes))

----------------------------------------------------------------------------
(* The page from its mount on, checked under SpecApp                       *)

\* C28: when the ROI document fails to load, VideoOverlay is still started,
\* with empty frame data, and a notice is shown; when the mapping document
\* fails to load, VideoOverlay keeps running with an empty mapping.
C28_LoadFailureDegraded ==
    /\ (error # NoNotice)
          => (/\ AppView(mediaSelection, error, roi) = "VideoOverlay"
              /\ frames = <<>>)
    /\ mappingError
          => (/\ AppView(mediaSelection, error, roi) = "VideoOverlay"
              /\ descriptionMapping = Loaded(<<>>))

\* the state of the render loop
loopVars == <<currentBoxes, prevBoxes, previousTime, frame, isSeeking, tickResult>>

\* C29: at most one callback of the loop is scheduled at any moment; every
\* list a tick publishes is computed by the updater from the list the
\* previous tick published; and after the cleanup of the loop no callback is
\* left and no tick runs or publishes any more.
C29_TicksSequential ==
    [][/\ Cardinality(rafCallbacks') <= 1
       /\ (currentBoxes' # currentBoxes)
             => (/\ prevBoxes' = currentBoxes
                 /\ currentBoxes' =
                        UpdateBoxes(currentBoxes, frame', isSeeking', previousTime'))
       /\ (tickResult \in {"TypeError", "RenderTypeError"})
             => (rafCallbacks = {} /\ UNCHANGED loopVars)]_vars

\* the loop published a list, the next tick merged into it, and its render
\* threw: the component was removed and the cleanup cancelled the callback
C29_Witness ==
    /\ tickResult = "RenderTypeError"
    /\ prevBoxes # <<>>
    /\ Len(currentBoxes) = 2
    /\ animationFrameId # 0
    /\ rafCallbacks = {}

\* C30: a step that changes the state of the render loop (a tick) starts no
\* fetch and changes neither the selection, the mapping, the resolver status,
\* the resolver content, the request token nor the pause state; a step that
\* changes the selection or completes a fetch does not change the list of
\* tracked boxes.
C30_Separation ==
    [][/\ (loopVars' # loopVars)
             => (/\ UNCHANGED <<selectedBox, descriptionMapping, mappingError,
                                descriptionStatus, descriptionHtml, latestFetchRef,
                                paused>>
                 /\ Len(requests') = Len(requests))
       /\ (selectedBox' # selectedBox \/ \E id \in 1..MaxFetches : Completes(id))
             => UNCHANGED <<currentBoxes, previousTime>>]_vars

\* ticks have run and published a list while the fetch of the selection is
\* in flight
C30_Witness ==
    /\ selectedBox # NoBox
    /\ descriptionStatus = "loading"
    /\ effectRequest \in DOMAIN requests
    /\ requests[effectRequest].outcome = "pending"
    /\ tickResult = "published"
    /\ previousTime > 0
    /\ prevBoxes # <<>>
    /\ currentBoxes # <<>>

----------------------------------------------------------------------------
(* Focus Classifier, checked under SpecFocus                               *)

InCorner(b) == b.x >= RightLimit /\ b.y >= BottomLimit

\* C15 as stated: every box inside the bottom-right corner zone (y >= 0.85
\* and x >= 0.85), of every width, height and confidence, width or height 0
\* included, is not interactive and has no clickable region.
C15_CornerNeverInteractive ==
    (rendered.done /\ InCorner(renderBox)) =>
        (~rendered.isFocused /\ ~rendered.hasInteractiveRegion)

\* C15 amended: every box inside the bottom-right corner zone whose bottom
\* edge y + h and right edge x + w are both greater than 0.85 is not
\* interactive and has no clickable region.
C15_CornerBeyondLimits ==
    (/\ rendered.done
     /\ InCorner(renderBox)
     /\ renderBox.y + renderBox.h > BottomLimit
     /\ renderBox.x + renderBox.w > RightLimit)
    => (~rendered.isFocused /\ ~rendered.hasInteractiveRegion)

\* a small box without confidence in the corner, above the reserved band:
\* only the control zone keeps it from being interactive
C15_Witness ==
    /\ rendered.done
    /\ renderBox.x = RightLimit /\ renderBox.y = BottomLimit
    /\ renderBox.w > 0 /\ renderBox.h > 0
    /\ renderBox.w * renderBox.h < SmallArea
    /\ renderBox.conf = Undef /\ renderBox.score = Undef
    /\ rendered.overlapRatio[1] < rendered.overlapRatio[2]
    /\ ~rendered.isFocused
    /\ ~rendered.hasInteractiveRegion

\* C16: every box centred at (0.5, 0.5) with area 0.3 and confidence 0.9
\* that fits in the frame is interactive and has a clickable region.
C16_CentredLargeBox ==
    (/\ rendered.done
     /\ 2 * renderBox.x + renderBox.w = Unit
     /\ 2 * renderBox.y + renderBox.h = Unit
     /\ 10 * renderBox.w * renderBox.h = 3 * Unit * Unit
     /\ renderBox.conf = 900)
    => (rendered.isFocused /\ rendered.hasInteractiveRegion)

\* the box of full height, which reaches into the reserved band
C16_Witness ==
    /\ rendered.done
    /\ renderBox = [x |-> 350, y |-> 0, w |-> 300, h |-> 1000,
                    conf |-> 900, score |-> Undef]
    /\ rendered.isFocused
    /\ rendered.hasInteractiveRegion
    /\ rendered.overlapRatio = <<120, 1000>>

\* centre x and centre y both in the closed interval [0.25, 0.75]
IsCenteredClosed(b) ==
    /\ 2 * b.x + b.w >= 2 * CenterMin /\ 2 * b.x + b.w <= 2 * CenterMax
    /\ 2 * b.y + b.h >= 2 * CenterMin /\ 2 * b.y + b.h <= 2 * CenterMax

\* C20: a box is interactive exactly when (its centre has x and y in the
\* closed interval [0.25, 0.75] or its area is below 0.05) and (its
\* confidence is absent or above 0.5) and it is not in a control zone (bottom
\* edge > 0.85 together with x < 0.15 or right edge > 0.85).
C20_FocusRuleClosedCentre ==
    rendered.done =>
        (rendered.isFocused <=>
            (/\ IsCenteredClosed(renderBox)
                    \/ renderBox.w * renderBox.h < SmallArea
             /\ (renderBox.conf = Undef /\ renderBox.score = Undef)
                    \/ Confidence(renderBox) > MinConfidence
             /\ ~(/\ renderBox.y + renderBox.h > BottomLimit
                  /\ renderBox.x < LeftLimit
                        \/ renderBox.x + renderBox.w > RightLimit)))

\* C21: every box whose vertical extent lies fully inside the bottom reserved
\* band (y >= 1 - 0.12, for every height h >= 0) has no interactive region,
\* whatever its centring, size and confidence; for every other box the
\* occluded fraction is in [0, 1).
C21_ReservedBand ==
    rendered.done =>
        IF renderBox.y >= Unit - CONTROL_ZONE_RATIO
        THEN ~rendered.hasInteractiveRegion
        ELSE /\ rendered.overlapRatio[1] >= 0
             /\ rendered.overlapRatio[1] < rendered.overlapRatio[2]

----------------------------------------------------------------------------
(* smile-ivp VideoPlayer, checked under SpecPlayer                         *)

\* the interval [start-time, end-time] of the item contains the time t
Contains(fr, t) == fr.start * Second <= t /\ t <= fr.end * Second

\* C18: at every reported time the highlighted ROIs are exactly the objects
\* of the frame-range item whose interval [start-time, end-time] contains
\* the time, and there is none when no interval contains it.
C18_ROIsOfContainingRange ==
    /\ \A i \in DOMAIN roiData.frames :
          Contains(roiData.frames[i], currentTime)
              => (currentROIs = roiData.frames[i].objects)
    /\ (\A i \in DOMAIN roiData.frames : ~Contains(roiData.frames[i], currentTime))
          => (currentROIs = <<>>)

----------------------------------------------------------------------------
(* smile-ivp popup, checked under SpecPopup                                *)

\* C31: after ROI A and then ROI B were clicked, once both fetches have
\* completed, in either order, the popup shows B's content under B's title,
\* and the loading indicator is shown for as long as B's fetch is pending.
C31_LastClickWins ==
    (Len(popupFetches) = 2) =>
        /\ popupTitle = Annotation(popupFetches[2].object)
        /\ (popupFetches[2].outcome = "pending") => isLoading
        /\ (popupFetches[1].outcome # "pending" /\ popupFetches[2].outcome # "pending")
              => (popupContent = IF popupFetches[2].outcome = "ok"
                                 THEN InfoContent(popupFetches[2].object)
                                 ELSE ErrorContent(popupFetches[2].object))

====
